---------------------------- MODULE Spec2Model ----------------------------
(***************************************************************************)
(* Model of footcalendargenerator.js: the round-robin Calendar, the        *)
(* ScoreGenerator, Championship.simulateAllGames and Championship.rankings.*)
(*                                                                         *)
(* Teams are identified by positive integers; record[t] holds the mutable  *)
(* fields of the Team object t.  Probabilities are exact fixed-point       *)
(* numbers: the integer p stands for p / Scale.  Every number the code     *)
(* computes in transform is a multiple of 1 / Scale, so no rounding occurs *)
(* in the model, and the order of the 8 x 25 values is the same as the     *)
(* order of the IEEE doubles the code computes.  A seed equal to a value   *)
(* of the array stands for the double equal to the double the code holds.  *)
(***************************************************************************)
EXTENDS Integers, Sequences, FiniteSets, TLC

VARIABLES
    teams,          \* the array handed to new Calendar(...) / roundRobin
    hasReturnGames, \* constructor argument
    champTeams,     \* Championship.teams
    matchDays,      \* Calendar.matchDays (<<>> while not assigned)
    record,         \* team id -> fields of the Team object
    cursor,         \* position of simulateAllGames: <<day, match>>
    status,         \* where the program is
    forStren,       \* arguments of transform / computeScore
    versusStren,
    seed,           \* the value Math.random() returns in computeScore
    probs,          \* value returned by transform
    score           \* value returned by computeScore

vars == <<teams, hasReturnGames, champTeams, matchDays, record, cursor,
          status, forStren, versusStren, seed, probs, score>>

(***************************************************************************)
(* Bounds of the model.                                                    *)
(***************************************************************************)
MaxTeams == 6
MaxPermuted == 4
MaxSimTeams == 4
MaxSimMatches == 6
NumRanked == 3
SeedGrid == 10

Range(s) == {s[k] : k \in DOMAIN s}

(***************************************************************************)
(* Team and Match objects.                                                 *)
(***************************************************************************)
undefined == 0 - 1
null == 0

Team(strength) ==
    [wins |-> 0, draws |-> 0, losses |-> 0, goalsFor |-> 0, goalsConc |-> 0,
     strength |-> IF strength = undefined THEN 2 ELSE strength]

points(t) == t.wins * 3 + t.draws
played(t) == t.wins + t.draws + t.losses
goalDiff(t) == t.goalsFor - t.goalsConc

Match(home, away) ==
    [teams |-> <<home, away>>, homeTeam |-> home, awayTeam |-> away,
     homeScore |-> 0, awayScore |-> 0]

result(m) ==
    IF m.homeScore > m.awayScore THEN m.homeTeam
    ELSE IF m.awayScore > m.homeScore THEN m.awayTeam
    ELSE null

(***************************************************************************)
(* Calendar.                                                               *)
(***************************************************************************)
\* Array.prototype.splice(start, deleteCount) without inserted items:
\* the removed elements and what is left in the array.
splice(arr, start, deleteCount) ==
    LET len == Len(arr)
        room == len - start
        want == IF deleteCount < 0 THEN 0 ELSE deleteCount
        cnt == IF want > room THEN room ELSE want
    IN  [removed |-> SubSeq(arr, start + 1, start + cnt),
         remaining |-> SubSeq(arr, 1, start) \o SubSeq(arr, start + cnt + 1, len)]

\* rotate that gives the array back as it was.
rotate_noRotation(t) == t

\* rotate(teams): teams has odd length whenever roundRobin calls it.
rotate(t) ==
    LET pivotPos == (Len(t) + 1) \div 2
    IN  [k \in 1..Len(t) |->
            IF k <= pivotPos THEN t[pivotPos - 1 + k] ELSE t[k - pivotPos]]

\* The match day with teams[teams.length - j - 1] for teams[teams.length - j].
MatchDay_offByOne(pivot, t) ==
    LET js == {j \in 1..Len(t) : 2 * j < Len(t) + 1}
    IN  <<Match(pivot, t[1])>> \o
        [j \in 1..Cardinality(js) |-> Match(t[j + 1], t[Len(t) - j])]

\* One iteration of the outer loop of roundRobin: the match day md.
MatchDay(pivot, t) ==
    LET js == {j \in 1..Len(t) : 2 * j < Len(t) + 1}
    IN  <<Match(pivot, t[1])>> \o
        [j \in 1..Cardinality(js) |-> Match(t[j + 1], t[Len(t) - j + 1])]

\* The outer loop of roundRobin from iteration i on.
RECURSIVE BuildDays(_, _, _, _)
BuildDays(pivot, t, i, occurences) ==
    IF i < occurences
    THEN <<MatchDay(pivot, t)>> \o BuildDays(pivot, rotate(t), i + 1, occurences)
    ELSE <<>>

\* The second block with home and away left as they were.
Invert_notInverted(md) == md

\* "Invert home & aways" of one match day.
Invert(md) == [k \in 1..Len(md) |-> Match(md[k].awayTeam, md[k].homeTeam)]

\* roundRobin(hasReturnGames, teams); perm is the order the random sort keys
\* give the match days.  Returns the schedule and what is left of the
\* argument array.
roundRobin(hrg, t, perm) ==
    LET occurences == Len(t) - 1
        pivot == t[Len(t)]
        sp == splice(t, 0, Len(t) - 1)
        days == BuildDays(pivot, sp.removed, 0, occurences)
        shuffled == [k \in 1..Len(days) |-> Invert(days[perm[k]])]
    IN  [matchDays |-> IF hrg THEN days \o shuffled ELSE days,
         teams |-> sp.remaining]

\* The constructor with the parity test the wrong way round.
Calendar_evenRejected(hrg, t, perm) ==
    IF Len(t) % 2 = 0
    THEN [threw |-> TRUE, matchDays |-> <<>>, teams |-> t]
    ELSE LET r == roundRobin(hrg, t, perm)
         IN  [threw |-> FALSE, matchDays |-> r.matchDays, teams |-> r.teams]

\* new Calendar(hasReturnGames, teams)
Calendar(hrg, t, perm) ==
    IF Len(t) % 2 # 0
    THEN [threw |-> TRUE, matchDays |-> <<>>, teams |-> t]
    ELSE LET r == roundRobin(hrg, t, perm)
         IN  [threw |-> FALSE, matchDays |-> r.matchDays, teams |-> r.teams]

\* The orders the shuffle can produce for n match days.
ShuffleOrders(hrg, n) ==
    IF hrg /\ n > 0 THEN Permutations(1..n) ELSE {<<>>}

\* new Championship(hasReturnGames, ...teams)
NewChampionship ==
    /\ status = "new"
    /\ \E perm \in ShuffleOrders(hasReturnGames, Len(teams) - 1) :
          LET c == Calendar(hasReturnGames, teams, perm)
          IN  /\ champTeams' = teams
              /\ teams' = c.teams
              /\ matchDays' = c.matchDays
              /\ status' = IF c.threw THEN "error" ELSE "built"
    /\ UNCHANGED <<hasReturnGames, record, cursor, forStren, versusStren,
                   seed, probs, score>>

(***************************************************************************)
(* Specification of the schedule construction: team sets 1..n in every     *)
(* order of their first MaxPermuted members, both leg modes.  The code     *)
(* never inspects a team, so an order stands for all its relabellings.     *)
(***************************************************************************)
Orders(n) ==
    {p \in Permutations(1..n) : \A k \in 1..n : k > MaxPermuted => p[k] = k}

IdleScore ==
    /\ forStren = 2
    /\ versusStren = 2
    /\ seed = 0
    /\ probs = <<>>
    /\ score = undefined

InitCalendar ==
    /\ \E n \in 0..MaxTeams : teams \in Orders(n)
    /\ hasReturnGames \in BOOLEAN
    /\ champTeams = <<>>
    /\ matchDays = <<>>
    /\ record = [t \in Range(teams) |-> Team(undefined)]
    /\ cursor = <<1, 1>>
    /\ status = "new"
    /\ IdleScore

NextCalendar == NewChampionship

SpecCalendar == InitCalendar /\ [][NextCalendar]_vars


(***************************************************************************)
(* ScoreGenerator.                                                         *)
(***************************************************************************)
\* One unit of probability: 1 is Scale.  BaseScoringProb and
\* StrenghtsCoefficients are written in hundredths, and 2520 is the least
\* common multiple of the divisors index + 3 for index 0..7 (and of 1..7).
Scale == 100 * 100 * 2520

Strengths == 0..4

\* in hundredths
BaseScoringProb == [index \in 0..7 |->
    CASE index = 0 -> 20  [] index = 1 -> 45  [] index = 2 -> 70
      [] index = 3 -> 85  [] index = 4 -> 92  [] index = 5 -> 97
      [] index = 6 -> 99  [] index = 7 -> 100]

MaxGoalPossible == 8 - 1

\* in hundredths
StrenghtsCoefficients == [s1 \in Strengths |-> [s2 \in Strengths |->
    LET gap == [d \in 0..4 |->
                  CASE d = 0 -> 0  [] d = 1 -> 5  [] d = 2 -> 15
                    [] d = 3 -> 30 [] d = 4 -> 50]
    IN  IF s2 >= s1 THEN gap[s2 - s1] ELSE 0 - gap[s1 - s2]]]

\* transform without the cap at 1 below the last index.
transform_uncapped(forStren_, versusStren_) ==
    [index \in 0..7 |->
        LET cpt == BaseScoringProb[index]
                   * (100 * (index + 1 * 3)
                      + 4 * StrenghtsCoefficients[forStren_][versusStren_])
                   * (2520 \div (index + 1 * 3))
        IN  IF index # MaxGoalPossible THEN cpt ELSE Scale]

\* transform(forStren, versusStren):
\*   cpt = (1 + C / ((index + 1 * 3) / 4)) * prob
\*       = prob * ((index + 3) + 4 C) / (index + 3)
transform(forStren_, versusStren_) ==
    [index \in 0..7 |->
        LET cpt == BaseScoringProb[index]
                   * (100 * (index + 1 * 3)
                      + 4 * StrenghtsCoefficients[forStren_][versusStren_])
                   * (2520 \div (index + 1 * 3))
        IN  IF cpt < Scale /\ index # MaxGoalPossible THEN cpt ELSE Scale]

Least(S) == CHOOSE x \in S : \A y \in S : x <= y

\* array.find(test of computeScore): the first VALUE whose index passes the
\* test, undefined when none does.  array[8] is undefined and compares false.
find(array, seed_) ==
    LET found == {index \in 0..7 :
                    IF index = 0
                    THEN seed_ <= array[0]
                    ELSE /\ array[index - 1] < seed_
                         /\ index + 1 <= 7
                         /\ seed_ <= array[index + 1]}
    IN  IF found = {} THEN undefined ELSE array[Least(found)]

\* array.indexOf(value): the first index holding value, -1 when none does.
indexOf(array, value) ==
    LET holds == {index \in 0..7 : array[index] = value}
    IN  IF holds = {} THEN 0 - 1 ELSE Least(holds)

\* computeScore(forStren, versusStren) when Math.random() returns seed_.
computeScore(forStren_, versusStren_, seed_) ==
    LET found == find(transform(forStren_, versusStren_), seed_)
    IN  indexOf(transform(forStren_, versusStren_),
                IF found = undefined THEN 0 ELSE found)

(***************************************************************************)
(* Specification of the score generator alone: every pair of strengths,    *)
(* and seeds on, just below and just above every value of the array, plus  *)
(* a regular grid of [0, 1).                                               *)
(***************************************************************************)
Seeds(f, v) ==
    LET P == transform(f, v)
        near == UNION {{P[i] - 1, P[i], P[i] + 1} : i \in 0..7}
        grid == {(k * Scale) \div SeedGrid : k \in 0..SeedGrid - 1}
    IN  {x \in near \cup grid \cup {0} : 0 <= x /\ x < Scale}

InitScore ==
    /\ teams = <<>>
    /\ hasReturnGames = FALSE
    /\ champTeams = <<>>
    /\ matchDays = <<>>
    /\ record = [t \in {} |-> Team(undefined)]
    /\ cursor = <<1, 1>>
    /\ status = "input"
    /\ forStren \in Strengths
    /\ versusStren \in Strengths
    /\ seed \in Seeds(forStren, versusStren)
    /\ probs = <<>>
    /\ score = undefined

\* a call of transform(forStren, versusStren)
Transform ==
    /\ status = "input"
    /\ probs' = transform(forStren, versusStren)
    /\ status' = "transformed"
    /\ UNCHANGED <<teams, hasReturnGames, champTeams, matchDays, record,
                   cursor, forStren, versusStren, seed, score>>

\* a call of computeScore(forStren, versusStren) that draws seed
ComputeScore ==
    /\ status \in {"input", "transformed"}
    /\ score' = computeScore(forStren, versusStren, seed)
    /\ status' = "scored"
    /\ UNCHANGED <<teams, hasReturnGames, champTeams, matchDays, record,
                   cursor, forStren, versusStren, seed, probs>>

NextScore == Transform \/ ComputeScore

SpecScore == InitScore /\ [][NextScore]_vars


(***************************************************************************)
(* Championship.simulateAllGames.                                          *)
(***************************************************************************)
\* new ScoreGenerator(match): the two scores when the two calls of
\* Math.random() return seedHome and seedAway.
ScoreGenerator(match, rec, seedHome, seedAway) ==
    IF match.homeTeam \in {null, undefined} \/ match.awayTeam \in {null, undefined}
    THEN [threw |-> TRUE, homeScore |-> 0, awayScore |-> 0]
    ELSE LET h == rec[match.homeTeam].strength
             a == rec[match.awayTeam].strength
             homeStr == IF h = undefined THEN 2 ELSE h
             awayStr == IF a = undefined THEN 2 ELSE a
         IN  [threw |-> FALSE,
              homeScore |-> computeScore(homeStr, awayStr, seedHome),
              awayScore |-> computeScore(awayStr, homeStr, seedAway)]

\* The classification that counts a draw for the home team only.
Classify_drawForHomeOnly(rec, match) ==
    LET winner == result(match)
        loser == IF match.teams[1] # winner THEN match.teams[1]
                 ELSE match.teams[2]
    IN  IF winner # null
        THEN LET won == [rec EXCEPT ![winner].wins = @ + 1]
             IN  [won EXCEPT ![loser].losses = @ + 1]
        ELSE [rec EXCEPT ![match.homeTeam].draws = @ + 1]

\* if (match.result) { wins++, losses++ } else { draws++, draws++ }
Classify(rec, match) ==
    LET winner == result(match)
        loser == IF match.teams[1] # winner THEN match.teams[1]
                 ELSE match.teams[2]
    IN  IF winner # null
        THEN LET won == [rec EXCEPT ![winner].wins = @ + 1]
             IN  [won EXCEPT ![loser].losses = @ + 1]
        ELSE LET drawn == [rec EXCEPT ![match.homeTeam].draws = @ + 1]
             IN  [drawn EXCEPT ![match.awayTeam].draws = @ + 1]

\* goalsFor += goals for the scorer, goalsConc += goals for the other team
AddGoals(rec, scorer, conceder, goals) ==
    [rec EXCEPT ![scorer].goalsFor = @ + goals,
                ![conceder].goalsConc = @ + goals]

\* The body of the inner loop of simulateAllGames for one match.  It makes
\* two ScoreGenerator objects, so Math.random() is called four times; the
\* first object gives the home score and the second the away score.  A
\* ScoreGenerator reads the teams of the match and their strengths only, so
\* both are made from the match and the records as they were.
PlayMatch(rec, match, s1, s2, s3, s4) ==
    LET homeScore == ScoreGenerator(match, rec, s1, s2).homeScore
        awayScore == ScoreGenerator(match, rec, s3, s4).awayScore
        scored == [match EXCEPT !.homeScore = homeScore,
                                !.awayScore = awayScore]
        goals == AddGoals(
                    AddGoals(rec, match.homeTeam, match.awayTeam, homeScore),
                    match.awayTeam, match.homeTeam, awayScore)
    IN  IF ScoreGenerator(match, rec, s1, s2).threw
        THEN [threw |-> TRUE, match |-> match, record |-> rec]
        ELSE [threw |-> FALSE, match |-> scored,
              record |-> Classify(goals, scored)]

\* The values Math.random() returns during a simulation: 0.1 and 0.9.
SimSeeds == {Scale \div 10, 9 * (Scale \div 10)}

\* One iteration of the loops of simulateAllGames, at the match under cursor.
SimulateMatch ==
    /\ status = "built"
    /\ cursor[1] <= Len(matchDays)
    /\ \E s1 \in SimSeeds, s2 \in SimSeeds, s3 \in SimSeeds, s4 \in SimSeeds :
          LET d == cursor[1]
              k == cursor[2]
              r == PlayMatch(record, matchDays[d][k], s1, s2, s3, s4)
          IN  /\ record' = r.record
              /\ matchDays' = [matchDays EXCEPT ![d][k] = r.match]
              /\ status' = IF r.threw THEN "error" ELSE "built"
              /\ cursor' = IF k < Len(matchDays[d]) THEN <<d, k + 1>>
                           ELSE <<d + 1, 1>>
    /\ UNCHANGED <<teams, hasReturnGames, champTeams, forStren, versusStren,
                   seed, probs, score>>

\* simulateAllGames returns once the last match day is done.
SimulateEnd ==
    /\ status = "built"
    /\ cursor[1] > Len(matchDays)
    /\ status' = "done"
    /\ UNCHANGED <<teams, hasReturnGames, champTeams, matchDays, record,
                   cursor, forStren, versusStren, seed, probs, score>>

(***************************************************************************)
(* Championship.rankings.                                                  *)
(***************************************************************************)
\* The comparator with the goal differences compared the wrong way round.
compare_goalDiffAscending(a, b) ==
    IF points(a) # points(b) THEN points(b) - points(a)
    ELSE IF goalDiff(a) # goalDiff(b) THEN goalDiff(a) - goalDiff(b)
    ELSE IF a.goalsFor # b.goalsFor THEN b.goalsFor - a.goalsFor
    ELSE 0

\* The comparator handed to sort.  It returns undefined when the three keys
\* are equal, which sort takes for 0.
compare(a, b) ==
    IF points(a) # points(b) THEN points(b) - points(a)
    ELSE IF goalDiff(a) # goalDiff(b) THEN goalDiff(b) - goalDiff(a)
    ELSE IF a.goalsFor # b.goalsFor THEN b.goalsFor - a.goalsFor
    ELSE 0

\* Array.prototype.sort with that comparator: a stable sort, here by
\* insertion of each element before the first one that must follow it.
InsertSorted(sorted, x, rec) ==
    LET after == {k \in 1..Len(sorted) : compare(rec[sorted[k]], rec[x]) > 0}
        at == IF after = {} THEN Len(sorted) + 1
              ELSE CHOOSE k \in after : \A other \in after : k <= other
    IN  SubSeq(sorted, 1, at - 1) \o <<x>> \o SubSeq(sorted, at, Len(sorted))

RECURSIVE sort(_, _)
sort(arr, rec) ==
    IF arr = <<>> THEN <<>>
    ELSE InsertSorted(sort(SubSeq(arr, 1, Len(arr) - 1), rec), arr[Len(arr)], rec)

\* get rankings(): sorts this.teams in place and returns it.
Rankings ==
    /\ status = "done"
    /\ champTeams' = sort(champTeams, record)
    /\ status' = "ranked"
    /\ UNCHANGED <<teams, hasReturnGames, matchDays, record, cursor,
                   forStren, versusStren, seed, probs, score>>

(***************************************************************************)
(* Specification of a whole run: a championship of teams 1..n, all of the  *)
(* default strength or team t of strength t % 5, is built, simulated match *)
(* by match and ranked.  The schedules are those of at most MaxSimMatches  *)
(* matches.                                                                *)
(***************************************************************************)
SimRecords(ts) ==
    {[t \in ts |-> Team(undefined)], [t \in ts |-> Team(t % 5)]}

NumMatches(n, hrg) == (n \div 2) * (n - 1) * (IF hrg THEN 2 ELSE 1)

InitSim ==
    /\ \E n \in 0..MaxSimTeams : teams = [k \in 1..n |-> k]
    /\ hasReturnGames \in BOOLEAN
    /\ NumMatches(Len(teams), hasReturnGames) <= MaxSimMatches
    /\ champTeams = <<>>
    /\ matchDays = <<>>
    /\ record \in SimRecords(Range(teams))
    /\ cursor = <<1, 1>>
    /\ status = "new"
    /\ IdleScore

NextSim == NewChampionship \/ SimulateMatch \/ SimulateEnd \/ Rankings

SpecSim == InitSim /\ [][NextSim]_vars

(***************************************************************************)
(* Specification of rankings alone: NumRanked teams with any records made  *)
(* of the values below.                                                    *)
(***************************************************************************)
RankRecords ==
    {[wins |-> w, draws |-> d, losses |-> 0, goalsFor |-> gf,
      goalsConc |-> gc, strength |-> 2] :
        w \in 0..1, d \in {0, 3}, gf \in 0..1, gc \in 0..1}

InitRank ==
    /\ teams = <<>>
    /\ hasReturnGames = FALSE
    /\ champTeams = [k \in 1..NumRanked |-> k]
    /\ matchDays = <<>>
    /\ record \in [1..NumRanked -> RankRecords]
    /\ cursor = <<1, 1>>
    /\ status = "done"
    /\ IdleScore

NextRank == Rankings

SpecRank == InitRank /\ [][NextRank]_vars


(***************************************************************************)
(* Properties of the schedule.                                             *)
(***************************************************************************)
N == Len(champTeams)
Competitors == Range(champTeams)
Slots == {<<d, k>> \in (1..Len(matchDays)) \X (1..MaxTeams + 1) :
            k <= Len(matchDays[d])}
PairOf(m) == {m.homeTeam, m.awayTeam}
Meetings(x, y) == {sl \in Slots : PairOf(matchDays[sl[1]][sl[2]]) = {x, y}}
Hostings(x, y) ==
    {sl \in Slots : /\ matchDays[sl[1]][sl[2]].homeTeam = x
                    /\ matchDays[sl[1]][sl[2]].awayTeam = y}

\* C1: a single-leg schedule of an even number N >= 2 of distinct
\* competitors has N-1 rounds of N/2 pairings each, every pairing is a pair
\* of two distinct competitors, and every two competitors meet exactly once.
C1_SingleLegCoversEveryPairOnce ==
    (status = "built" /\ ~hasReturnGames /\ N >= 2) =>
        /\ Len(matchDays) = N - 1
        /\ \A d \in 1..Len(matchDays) : Len(matchDays[d]) = N \div 2
        /\ \A sl \in Slots :
              /\ PairOf(matchDays[sl[1]][sl[2]]) \subseteq Competitors
              /\ Cardinality(PairOf(matchDays[sl[1]][sl[2]])) = 2
        /\ \A x \in Competitors : \A y \in Competitors \ {x} :
              Cardinality(Meetings(x, y)) = 1

C1_Witness ==
    /\ status = "built"
    /\ ~hasReturnGames
    /\ N = 6
    /\ Len(matchDays) = 5
    /\ champTeams[1] # 1

\* C2: a double-leg schedule of an even number N >= 2 of competitors has
\* 2(N-1) rounds, and every two competitors x, y meet exactly twice, once
\* with x at home and once with y at home, whatever order the shuffle gives
\* the second block.
C2_DoubleLegBothWays ==
    (status = "built" /\ hasReturnGames /\ N >= 2) =>
        /\ Len(matchDays) = 2 * (N - 1)
        /\ \A x \in Competitors : \A y \in Competitors \ {x} :
              /\ Cardinality(Meetings(x, y)) = 2
              /\ Cardinality(Hostings(x, y)) = 1
              /\ Cardinality(Hostings(y, x)) = 1

\* a double-leg schedule of 6 teams whose second block is not in the order
\* of the first
C2_Witness ==
    /\ status = "built"
    /\ hasReturnGames
    /\ N = 6
    /\ Len(matchDays) = 10
    /\ matchDays[6] # Invert(matchDays[1])
    /\ matchDays[10] = Invert(matchDays[2])

\* C3: every round of every schedule is a perfect matching: each competitor
\* is in exactly one pairing of the round and no pairing has the same
\* competitor on both sides.
C3_RoundIsPerfectMatching ==
    status = "built" =>
        \A d \in 1..Len(matchDays) :
            /\ \A k \in 1..Len(matchDays[d]) :
                  matchDays[d][k].homeTeam # matchDays[d][k].awayTeam
            /\ \A t \in Competitors :
                  Cardinality({k \in 1..Len(matchDays[d]) :
                                 t \in PairOf(matchDays[d][k])}) = 1

C3_Witness ==
    /\ status = "built"
    /\ N = 6
    /\ Len(matchDays) = 10
    /\ Len(matchDays[7]) = 3
    /\ champTeams[1] = 4

\* C4: constructing a Calendar with an odd number of competitors fails and
\* leaves no schedule, not even a partial one, in matchDays, in both leg
\* modes.
C4_OddRejected ==
    (status # "new" /\ N % 2 = 1) => (status = "error" /\ matchDays = <<>>)

C4_Witness ==
    /\ status = "error"
    /\ N = 5
    /\ hasReturnGames
    /\ matchDays = <<>>

\* C9: roundRobin leaves the array of an even number N >= 2 of competitors
\* that is passed to it as it was (same length, elements and order).
C9_ArgumentUnchanged ==
    [][(status = "new" /\ Len(teams) % 2 = 0 /\ Len(teams) >= 2)
          => teams' = teams]_vars


(***************************************************************************)
(* Properties of the score generator.                                      *)
(***************************************************************************)
\* The array transform is to return: min(1, B[i] (1 + C / ((i+1) 3/4)))
\*   = min(1, B[i] (300 (i+1) + 400 C) / (300 (i+1)))
AdjustedCumulative(f, v) ==
    [i \in 0..7 |->
        LET x == BaseScoringProb[i]
                 * (300 * (i + 1) + 4 * StrenghtsCoefficients[f][v])
                 * (840 \div (i + 1))
        IN  IF i = 7 \/ x > Scale THEN Scale ELSE x]

SmallestIndex(P, x) ==
    CHOOSE i \in 0..7 : x <= P[i] /\ \A j \in 0..7 : x <= P[j] => i <= j

\* C5: computeScore returns the smallest index i in 0..7 with seed <= P[i],
\* P being the array transform returns for the two strengths.
C5_SmallestIndexReturned ==
    status = "scored" =>
        score = SmallestIndex(transform(forStren, versusStren), seed)

\* C6: the array transform returns has P[i] = min(1, B[i] (1 + C[s1][s2] /
\* ((i+1) 3/4))) for every i in 0..6, and P[7] = 1.
C6_TransformFormula ==
    status = "transformed" =>
        probs = AdjustedCumulative(forStren, versusStren)

\* C10: the array transform returns is non-decreasing, for every one of the
\* 25 pairs of strengths.
C10_TransformMonotone ==
    status = "transformed" => \A i \in 0..6 : probs[i] <= probs[i + 1]

\* the weakest against the strongest: the values are capped from index 3 on
C10_Witness ==
    /\ status = "transformed"
    /\ forStren = 0
    /\ versusStren = 4
    /\ probs[2] < Scale
    /\ probs[3] = Scale


(***************************************************************************)
(* Properties of the simulation and of the ranking.                        *)
(***************************************************************************)
RoundsOf(t) ==
    {d \in 1..Len(matchDays) :
        \E k \in 1..Len(matchDays[d]) : t \in PairOf(matchDays[d][k])}

\* C7: once simulateAllGames has run over the schedule, every competitor
\* has wins + draws + losses equal to the number of rounds it appears in,
\* and goalsFor >= 0 and goalsConc >= 0.
C7_PlayedEqualsRounds ==
    status \in {"done", "ranked"} =>
        \A t \in DOMAIN record :
            /\ played(record[t]) = Cardinality(RoundsOf(t))
            /\ record[t].goalsFor >= 0
            /\ record[t].goalsConc >= 0

\* four teams, three rounds, with wins, a draw and goals on the records
C7_Witness ==
    /\ status = "done"
    /\ Len(matchDays) = 3
    /\ \A t \in DOMAIN record : played(record[t]) = 3
    /\ \E t \in DOMAIN record : record[t].wins = 2 /\ record[t].draws = 1
    /\ \E t \in DOMAIN record : record[t].goalsFor > 0
    /\ \E t \in DOMAIN record : record[t].losses > 0

Key(t) == <<points(record[t]), goalDiff(record[t]), record[t].goalsFor>>

LexGE(a, b) ==
    \/ a[1] > b[1]
    \/ a[1] = b[1] /\ a[2] > b[2]
    \/ a[1] = b[1] /\ a[2] = b[2] /\ a[3] >= b[3]

\* C8: rankings returns a permutation of all competitors in which the key
\* (points, goalDiff, goalsFor) of any competitor is lexicographically
\* greater than or equal to the key of every competitor placed after it.
C8_RankingsSorted ==
    status = "ranked" =>
        /\ Len(champTeams) = Cardinality(DOMAIN record)
        /\ Range(champTeams) = DOMAIN record
        /\ \A i \in 1..Len(champTeams) : \A j \in 1..Len(champTeams) :
              i < j => LexGE(Key(champTeams[i]), Key(champTeams[j]))

\* the last team is ranked first on goal difference, level on points with
\* the second, and the third has fewer points
C8_Witness ==
    /\ status = "ranked"
    /\ champTeams = <<3, 1, 2>>
    /\ Key(3)[1] = Key(1)[1]
    /\ Key(3)[2] > Key(1)[2]
    /\ Key(1)[1] > Key(2)[1]

=============================================================================
